---- MODULE Spec2Model ----
(***************************************************************************)
(* surf-check: the alert evaluator (src/services/alerts.ts), the alert     *)
(* state store (src/services/state.ts) and the check cycle                 *)
(* (scripts/check-forecast.ts).                                            *)
(*                                                                         *)
(* Time is counted in whole hours since the Unix epoch (UTC).  A Date is   *)
(* such an hour count; day 0 (1970-01-01) is a Thursday.                   *)
(***************************************************************************)
EXTENDS Integers, Sequences, FiniteSets, TLC

VARIABLES
    \* ---- the check cycle (scripts/check-forecast.ts, services/state.ts)
    clock,       \* the wall clock, new Date()
    disk,        \* data/state.json
    pc,          \* position of main(): "idle", "fetch", "finish"
    argv,        \* the flags of the running cycle
    now,         \* main's `now`
    state,       \* main's `state`, the loaded AlertState
    spotIdx,     \* index of the next spot of spotsToCheck
    allAlerts,   \* main's allAlerts
    newAlerts,   \* main's newAlerts
    stdout,      \* what the running (or last) cycle printed with console.log
    \* ---- history of the check cycles
    diskAtStart, \* the file as it was when the cycle started
    emitCount,   \* alert key -> number of cron cycles that printed it
    withheld,    \* new alert keys a quiet-hours cycle found and did not print
    cycles,      \* number of check cycles started so far
    writes,      \* number of writes of data/state.json by the running cycle
    raised,      \* the state store threw inside the running cycle's loop
    stderr,      \* what the running (or last) cycle printed with console.error
    localConfig, \* ./surf-check.json
    globalConfig, \* ~/.surf-check.json
    \* ---- one call of the evaluator (services/alerts.ts)
    ef,          \* the DayForecast given to evaluateForecast
    ec,          \* the AlertConfig given
    en,          \* the `now` given
    ed,          \* the AlertDecision returned (NoDecision before the call)
    quietCheck,  \* the result of shouldSuppressNotification (NoCheck before)
    \* ---- one call of evaluateForecasts or generateAlert, and calls of the
    \* ---- state store on any state and alert
    efs,         \* the DayForecast[] given
    eds,         \* the AlertDecision[] of evaluateForecasts
    ea,          \* the Alert | null generateAlert returned
    sent,        \* the Alert[] given to updateStateAfterCheck (its sentAlerts)
    stateBefore, \* the AlertState as it was before the call that changes it
    refiltered,  \* what filterNewAlerts returned when called again
    \* ---- the objects of one process that calls loadState more than once
    heap,        \* object -> the alertsSent mapping it holds now
    loaded       \* the states loadState returned, alertsSent an object of heap

cycleVars == <<clock, disk, pc, argv, now, state, spotIdx, allAlerts, newAlerts,
               stdout, diskAtStart, emitCount, withheld, cycles, writes, raised,
               stderr, localConfig, globalConfig>>
evalVars == <<ef, ec, en, ed, quietCheck>>
callVars == <<efs, eds, ea, sent, stateBefore, refiltered, heap, loaded>>
cycleVarsButPc == <<clock, disk, argv, now, state, spotIdx, allAlerts, newAlerts,
                    stdout, diskAtStart, emitCount, withheld, cycles, writes, raised,
                    stderr, localConfig, globalConfig>>
vars == <<cycleVars, evalVars, callVars>>

----------------------------------------------------------------------------
(* Bounds of the model *)

\* wave heights of forecasts range over 0..MaxWave feet
MaxWave == 3
\* forecast days range from 1 day before to MaxDaysOut days after today
MaxDaysOut == 5
\* the first day of the model, counted from the epoch (day 13 is a Wednesday)
StartDay == 13
\* the check cycles of a run
MaxCycles == 2
\* the days in a list given to evaluateForecasts or generateAlert
MaxForecasts == 3
\* the runs of the schedule a second process may overlap: the first ones
MaxOverlaps == 1

----------------------------------------------------------------------------
(* Dates *)

HoursPerDay == 24

\* the process time zone as an offset from UTC, in hours (America/New_York, EST)
TzOffset == -5

\* Date.prototype.getHours(): the local hour of day
getHours(d) == (d + TzOffset) % HoursPerDay

\* the local calendar day of a Date, counted from the epoch
LocalDay(d) == (d + TzOffset) \div HoursPerDay

\* Date.prototype.setHours(0, 0, 0, 0): the instant of local midnight
setHoursMidnight(d) == LocalDay(d) * HoursPerDay - TzOffset

\* Date.prototype.getDay(): 0 = Sunday .. 6 = Saturday
getDay(d) == (LocalDay(d) + 4) % 7

\* date.toISOString().split('T')[0]: the UTC calendar day (YYYY-MM-DD), which
\* orders as its day number
isoDate(d) == d \div HoursPerDay

\* Math.round(n / m) for m > 0: halves round up
MathRoundDiv(n, m) == (2 * n + m) \div (2 * m)

----------------------------------------------------------------------------
(* types.ts *)

RatingKey == {"FLAT", "VERY_POOR", "POOR", "POOR_TO_FAIR", "FAIR",
              "FAIR_TO_GOOD", "GOOD", "GOOD_TO_EPIC", "EPIC"}

\* a rating key the API may send that is none of RatingKey
UnknownRatingKey == "UNKNOWN"

RATING_VALUES ==
    [k \in RatingKey |->
        CASE k = "FLAT" -> 0
          [] k = "VERY_POOR" -> 0
          [] k = "POOR" -> 1
          [] k = "POOR_TO_FAIR" -> 1
          [] k = "FAIR" -> 2
          [] k = "FAIR_TO_GOOD" -> 3
          [] k = "GOOD" -> 4
          [] k = "GOOD_TO_EPIC" -> 5
          [] k = "EPIC" -> 5]

DEFAULT_ALERT_CONFIG ==
    [waveMin |-> 2, waveMax |-> 6, forecastDays |-> 7,
     quietHours |-> [enabled |-> TRUE, start |-> 22, end |-> 6]]

\* spot ids are written as the sequence of their ':'-separated parts
SPOTS ==
    [BELMAR |-> [id |-> <<"5842041f4e65fad6a7708a01">>, name |-> "Belmar (16th Ave)"],
     LONG_BRANCH |-> [id |-> <<"630d04654da1381c5cb8aeb7">>, name |-> "Long Branch"]]

----------------------------------------------------------------------------
(* providers/surfline.ts *)

isWeekend(date) == getDay(date) \in {0, 5, 6}

\* the DayForecast fetchDailyForecasts builds for one day of the API's data
\* (the display fields, wind and swells are left out)
DayForecast(date, waveMin, waveMax, ratingKey) ==
    [date |-> date,
     isWeekend |-> isWeekend(date),
     wave |-> [min |-> waveMin, max |-> waveMax],
     rating |-> [key |-> ratingKey]]

----------------------------------------------------------------------------
(* config.ts *)

\* the fields of a config file, those of quietHours written flat
ConfigFileValues(config) ==
    [waveMin |-> config.waveMin, waveMax |-> config.waveMax,
     forecastDays |-> config.forecastDays, enabled |-> config.quietHours.enabled,
     start |-> config.quietHours.start, end |-> config.quietHours.end]

\* a config file: absent, or a JSON object holding some of the alert-config
\* fields (`has` names the fields it sets; quietHours may be partial)
ConfigFile(has, config) == [exists |-> TRUE, has |-> has, values |-> ConfigFileValues(config)]
NoConfigFile == [exists |-> FALSE, has |-> {}, values |-> ConfigFileValues(DEFAULT_ALERT_CONFIG)]

\* the local file if there is one, else the global one, else null (<<>>)
loadConfigFile(localFile, globalFile) ==
    IF localFile.exists THEN <<localFile>>
    ELSE IF globalFile.exists THEN <<globalFile>>
    ELSE <<>>

\* the alertConfig of loadConfig(): a copy of the defaults with the fields
\* the file sets written over it
loadConfig(localFile, globalFile) ==
    LET found == loadConfigFile(localFile, globalFile)
        overridden(file, field, dflt) ==
            IF field \in file.has THEN file.values[field] ELSE dflt
        quiet(file) ==
            [enabled |-> overridden(file, "enabled", DEFAULT_ALERT_CONFIG.quietHours.enabled),
             start |-> overridden(file, "start", DEFAULT_ALERT_CONFIG.quietHours.start),
             end |-> overridden(file, "end", DEFAULT_ALERT_CONFIG.quietHours.end)]
    IN IF found = <<>>
       THEN [alertConfig |-> DEFAULT_ALERT_CONFIG]
       ELSE [alertConfig |->
                [waveMin |-> overridden(found[1], "waveMin", DEFAULT_ALERT_CONFIG.waveMin),
                 waveMax |-> overridden(found[1], "waveMax", DEFAULT_ALERT_CONFIG.waveMax),
                 forecastDays |-> overridden(found[1], "forecastDays",
                                             DEFAULT_ALERT_CONFIG.forecastDays),
                 quietHours |-> quiet(found[1])]]

----------------------------------------------------------------------------
(* services/alerts.ts *)

\* mutant of getDaysOut: the days counted between UTC dates
getDaysOutUTC(forecastDate, nowDate) == isoDate(forecastDate) - isoDate(nowDate)

getDaysOut(forecastDate, nowDate) ==
    LET forecastDay == setHoursMidnight(forecastDate)
        today == setHoursMidnight(nowDate)
        diffMs == forecastDay - today
    IN MathRoundDiv(diffMs, HoursPerDay)

\* mutants of getMinRatingForDaysOut: the 4-day tier starting a day late, a
\* day early, and the day-of tier asking for Fair only
getMinRatingLateTier(daysOut) ==
    IF daysOut > 4 THEN "FAIR_TO_GOOD"
    ELSE IF daysOut >= 1 THEN "FAIR"
    ELSE "GOOD"

getMinRatingEarlyTier(daysOut) ==
    IF daysOut >= 3 THEN "FAIR_TO_GOOD"
    ELSE IF daysOut >= 1 THEN "FAIR"
    ELSE "GOOD"

getMinRatingLaxDayOf(daysOut) ==
    IF daysOut >= 4 THEN "FAIR_TO_GOOD"
    ELSE "FAIR"

getMinRatingForDaysOut(daysOut) ==
    IF daysOut >= 4 THEN "FAIR_TO_GOOD"
    ELSE IF daysOut >= 1 THEN "FAIR"
    ELSE "GOOD"

DawnPatrolHour == 8

\* mutant of isPastDawnPatrol: the cutoff hour itself still allowed
isPastDawnPatrolAfter(nowDate) == getHours(nowDate) > DawnPatrolHour

isPastDawnPatrol(nowDate) == getHours(nowDate) >= DawnPatrolHour

\* mutants of isQuietHours: no overnight branch, and the end hour included
isQuietHoursNoWrap(quietHours, nowDate) ==
    IF ~quietHours.enabled THEN FALSE
    ELSE getHours(nowDate) >= quietHours.start /\ getHours(nowDate) < quietHours.end

isQuietHoursEndIncluded(quietHours, nowDate) ==
    IF ~quietHours.enabled THEN FALSE
    ELSE LET hour == getHours(nowDate)
             start == quietHours.start
             end == quietHours.end
         IN IF start > end
            THEN hour >= start \/ hour <= end
            ELSE hour >= start /\ hour <= end

isQuietHours(quietHours, nowDate) ==
    IF ~quietHours.enabled THEN FALSE
    ELSE LET hour == getHours(nowDate)
             start == quietHours.start
             end == quietHours.end
         IN IF start > end
            THEN hour >= start \/ hour < end
            ELSE hour >= start /\ hour < end

\* a key RATING_VALUES, an object literal, inherits from Object.prototype:
\* its lookup yields a function, which is not nullish and converts to NaN
InheritedKeys == {"constructor"}

\* stands for a value whose conversion to a number is NaN (ranks and wave
\* heights are never negative)
NotANumber == 0 - 1

\* a < b of JavaScript: false when either side converts to NaN
LessThan(a, b) == a # NotANumber /\ b # NotANumber /\ a < b

\* RATING_VALUES[key] ?? dflt
RatingValueOr(key, dflt) ==
    IF key \in DOMAIN RATING_VALUES THEN RATING_VALUES[key]
    ELSE IF key \in InheritedKeys THEN NotANumber
    ELSE dflt

\* the content of an AlertDecision's reason text: which return produced it and
\* the values it interpolates
Reason(kind, daysOut, minRating, weekend) ==
    [kind |-> kind, daysOut |-> daysOut, minRating |-> minRating, weekend |-> weekend]

Decision(shouldAlert, forecast, reason) ==
    [shouldAlert |-> shouldAlert, forecast |-> forecast, reason |-> reason]

\* the two wave-height tests of evaluateForecast
\* mutant of waveTooSmall: a day touching the lower end rejected
waveTooSmallOrEqual(forecast, config) == forecast.wave.max <= config.waveMin

waveTooSmall(forecast, config) == forecast.wave.max < config.waveMin

waveTooBig(forecast, config) == forecast.wave.min > config.waveMax

evaluateForecast(forecast, config, nowDate) ==
    LET daysOut == getDaysOut(forecast.date, nowDate)
        minRating == getMinRatingForDaysOut(daysOut)
        ratingValue == RatingValueOr(forecast.rating.key, 0)
        minRatingValue == RatingValueOr(minRating, 2)
    IN IF daysOut < 0
       THEN Decision(FALSE, forecast, Reason("past", 0, "", FALSE))
       ELSE IF daysOut = 0 /\ isPastDawnPatrol(nowDate)
       THEN Decision(FALSE, forecast, Reason("late", 0, "", FALSE))
       ELSE IF waveTooSmall(forecast, config)
       THEN Decision(FALSE, forecast, Reason("small", 0, "", FALSE))
       ELSE IF waveTooBig(forecast, config)
       THEN Decision(FALSE, forecast, Reason("big", 0, "", FALSE))
       ELSE IF LessThan(ratingValue, minRatingValue)
       THEN Decision(FALSE, forecast, Reason("below", daysOut, minRating, FALSE))
       ELSE Decision(TRUE, forecast, Reason("ok", daysOut, "", forecast.isWeekend))

shouldSuppressNotification(config, nowDate) ==
    IF isQuietHours(config.quietHours, nowDate)
    THEN [suppress |-> TRUE]
    ELSE [suppress |-> FALSE]

\* mutant of evaluateForecasts: a day at the very end of the window left out
evaluateForecastsStrictWindow(forecasts, config, nowDate) ==
    LET maxDate == nowDate + config.forecastDays * HoursPerDay
        inWindow(f) == f.date < maxDate
        relevant == SelectSeq(forecasts, inWindow)
    IN [i \in 1..Len(relevant) |-> evaluateForecast(relevant[i], config, nowDate)]

\* mutant of evaluateForecasts: the window counted in calendar days
evaluateForecastsCalendarWindow(forecasts, config, nowDate) ==
    LET inWindow(f) == getDaysOut(f.date, nowDate) <= config.forecastDays
        relevant == SelectSeq(forecasts, inWindow)
    IN [i \in 1..Len(relevant) |-> evaluateForecast(relevant[i], config, nowDate)]

evaluateForecasts(forecasts, config, nowDate) ==
    LET maxDate == nowDate + config.forecastDays * HoursPerDay
        inWindow(f) == f.date <= maxDate
        relevant == SelectSeq(forecasts, inWindow)
    IN [i \in 1..Len(relevant) |-> evaluateForecast(relevant[i], config, nowDate)]

\* mutant of generateAlert: every evaluated day bundled
generateAlertAllDecided(spot, forecasts, config, nowDate) ==
    LET decisions == evaluateForecasts(forecasts, config, nowDate)
        alertForecasts == [i \in 1..Len(decisions) |-> decisions[i].forecast]
    IN IF Len(alertForecasts) = 0
       THEN <<>>
       ELSE <<[spot |-> spot, forecasts |-> alertForecasts, generatedAt |-> nowDate]>>

\* Alert | null is written as a sequence of at most one Alert
generateAlert(spot, forecasts, config, nowDate) ==
    LET decisions == evaluateForecasts(forecasts, config, nowDate)
        alerting(d) == d.shouldAlert
        alertDecisions == SelectSeq(decisions, alerting)
        alertForecasts == [i \in 1..Len(alertDecisions) |-> alertDecisions[i].forecast]
    IN IF Len(alertForecasts) = 0
       THEN <<>>
       ELSE <<[spot |-> spot, forecasts |-> alertForecasts, generatedAt |-> nowDate]>>

----------------------------------------------------------------------------
(* services/state.ts *)

NoAlertsSent == [k \in {} |-> 0]

\* the module-level DEFAULT_STATE, built when the process starts
DEFAULT_STATE(processStart) == [lastCheck |-> processStart, alertsSent |-> NoAlertsSent]

\* data/state.json: absent, or holding a text that is JSON or not; `content`
\* is the value a JSON text stands for
NoFile == [exists |-> FALSE, json |-> FALSE, content |-> DEFAULT_STATE(0)]

\* JSON.stringify(state, null, 2) and JSON.parse: an AlertState holds only
\* strings, which both keep as they are
JSONstringify(st) == [lastCheck |-> st.lastCheck, alertsSent |-> st.alertsSent]
JSONparse(text) == text

\* readFile throws on an absent file and JSON.parse on a text that is not
\* JSON; what parses is returned as it is
loadState(file, processStart) ==
    IF file.exists /\ file.json
    THEN JSONparse(file.content)
    ELSE DEFAULT_STATE(processStart)

saveState(st) == [exists |-> TRUE, json |-> TRUE, content |-> JSONstringify(st)]

\* `${spotId}:${dateStr}`, as the sequence of its ':'-separated parts
getAlertKey(spotId, forecastDate) == Append(spotId, isoDate(forecastDate))

\* `key in state.alertsSent` is a TypeError when alertsSent is undefined
wasAlertSentThrows(st) == "alertsSent" \notin DOMAIN st

wasAlertSent(st, spotId, forecastDate) ==
    getAlertKey(spotId, forecastDate) \in DOMAIN st.alertsSent

\* mutant of markAlertSent: nothing recorded
markAlertSentNothing(st, spotId, forecastDate, at) == st

\* mutant of markAlertSent: a key already recorded keeps its first timestamp
markAlertSentKeepsFirst(st, spotId, forecastDate, at) ==
    LET key == getAlertKey(spotId, forecastDate)
    IN [st EXCEPT !.alertsSent =
           [k \in DOMAIN st.alertsSent \cup {key} |->
               IF k \in DOMAIN st.alertsSent THEN st.alertsSent[k] ELSE at]]

\* `at` is the new Date() the call reads
markAlertSent(st, spotId, forecastDate, at) ==
    LET key == getAlertKey(spotId, forecastDate)
    IN [st EXCEPT !.alertsSent =
           [k \in DOMAIN st.alertsSent \cup {key} |->
               IF k = key THEN at ELSE st.alertsSent[k]]]

\* mutant of filterNewAlerts: nothing filtered out
filterNewAlertsKeepsAll(alert, st) == <<alert>>

\* the filter calls wasAlertSent once for each forecast of the alert
filterNewAlertsThrows(alert, st) == Len(alert.forecasts) > 0 /\ wasAlertSentThrows(st)

filterNewAlerts(alert, st) ==
    LET unseen(f) == ~wasAlertSent(st, alert.spot.id, f.date)
        newForecasts == SelectSeq(alert.forecasts, unseen)
    IN IF Len(newForecasts) = 0
       THEN <<>>
       ELSE <<[alert EXCEPT !.forecasts = newForecasts]>>

RetentionDays == 7

\* mutant of cleanupOldAlerts: the cutoff date itself removed too
cleanupOldAlertsInclusive(st, at) ==
    LET cutoffStr == isoDate(at - RetentionDays * HoursPerDay)
        kept == {key \in DOMAIN st.alertsSent : ~(key[2] <= cutoffStr)}
    IN [st EXCEPT !.alertsSent = [k \in kept |-> st.alertsSent[k]]]

\* `dateStr < cutoffStr` is a comparison of strings.  Two ISO dates compare as
\* their day numbers do.  A string that is no date, a part of a spot id,
\* compares with an ISO date of the years 2000 to 2999 by its first
\* character: these are the id parts of the model that begin with "0" or "1"
\* and so sort before every such date; the other ones begin with a letter and
\* sort after
IdPartsBeforeDates == {"16th-ave"}

\* key.split(':')[1] is the second part of the key: the date where the spot
\* id holds no ':', and the second part of the spot id where it holds one
cleanupOldAlerts(st, at) ==
    LET cutoff == at - RetentionDays * HoursPerDay
        cutoffStr == isoDate(cutoff)
        dateStr(key) == key[2]
        before(key) == IF Len(key) = 2 THEN dateStr(key) < cutoffStr
                       ELSE dateStr(key) \in IdPartsBeforeDates
        kept == {key \in DOMAIN st.alertsSent : ~before(key)}
    IN [st EXCEPT !.alertsSent = [k \in kept |-> st.alertsSent[k]]]

\* the two loops of updateStateAfterCheck
RECURSIVE MarkForecasts(_, _, _, _)
MarkForecasts(st, spotId, forecasts, at) ==
    IF forecasts = <<>> THEN st
    ELSE MarkForecasts(markAlertSent(st, spotId, Head(forecasts).date, at),
                       spotId, Tail(forecasts), at)

RECURSIVE MarkAlerts(_, _, _)
MarkAlerts(st, sentAlerts, at) ==
    IF sentAlerts = <<>> THEN st
    ELSE MarkAlerts(MarkForecasts(st, Head(sentAlerts).spot.id,
                                  Head(sentAlerts).forecasts, at),
                    Tail(sentAlerts), at)

\* mutant of updateStateAfterCheck: the cleanup done before the marking
updateStateAfterCheckPruneFirst(st, sentAlerts, at) ==
    MarkAlerts(cleanupOldAlerts([st EXCEPT !.lastCheck = at], at), sentAlerts, at)

\* mutant of updateStateAfterCheck: no cleanup of old records
updateStateAfterCheckNoCleanup(st, sentAlerts, at) ==
    MarkAlerts([st EXCEPT !.lastCheck = at], sentAlerts, at)

\* returns the state as it is after the call; the file then holds saveState of it
updateStateAfterCheck(st, sentAlerts, at) ==
    LET stamped == [st EXCEPT !.lastCheck = at]
        marked == MarkAlerts(stamped, sentAlerts, at)
    IN cleanupOldAlerts(marked, at)

----------------------------------------------------------------------------
(* scripts/check-forecast.ts *)

spotsToCheck == <<SPOTS.BELMAR, SPOTS.LONG_BRANCH>>

\* the invocations the script documents: check, check:debug, check:json,
\* check:cron and --cron --force
Invocations == {{}, {"--debug"}, {"--json"}, {"--cron"}, {"--cron", "--force"}}

jsonOutput(a) == "--json" \in a
debugMode(a) == "--debug" \in a
cronMode(a) == "--cron" \in a
forceMode(a) == "--force" \in a

\* one console.log (or one run of them): what it is and the records it prints
Out(kind, data) == [kind |-> kind, data |-> data]

\* the cron schedule of the documented job, "0 */6 * * *": every 6 hours
CronIntervalHours == 6

\* the first instant of the model: local midnight of StartDay
StartClock == StartDay * HoursPerDay - TzOffset

\* a day's forecast timestamp: the spot's local midnight
StoreDate(day) == day * HoursPerDay - TzOffset

\* what a fetch may return: one DayForecast for each day the API covers, from
\* today on, in ascending date order, each stamped at the spot's local
\* midnight and rated by the API
FetchRatings == {"POOR", "GOOD"}
\* the days the API covers, counted from today: today and tomorrow
FetchOffsets == <<0, 1>>
FetchDate(nowDate, i) == setHoursMidnight(nowDate) + FetchOffsets[i] * HoursPerDay
FetchResults(nowDate) ==
    {[i \in DOMAIN FetchOffsets |-> DayForecast(FetchDate(nowDate, i), 3, 4, rs[i])] :
        rs \in [DOMAIN FetchOffsets -> FetchRatings]}

\* the sum of the alerts' forecast counts (the two reduce calls of main)
RECURSIVE CountForecasts(_)
CountForecasts(alerts) ==
    IF alerts = <<>> THEN 0
    ELSE Len(Head(alerts).forecasts) + CountForecasts(Tail(alerts))

\* the (spot id, forecast date) keys of a list of alerts
AlertKeys(alerts) ==
    UNION {{getAlertKey(alerts[i].spot.id, alerts[i].forecasts[j].date) :
                j \in 1..Len(alerts[i].forecasts)} : i \in 1..Len(alerts)}

\* the alerts a cycle printed as a summary
Printed(out) ==
    UNION {AlertKeys(out[i].data) : i \in {j \in 1..Len(out) : out[j].kind = "summary"}}

(* The process state before main() runs *)
ProcessIdle ==
    /\ pc = "idle"
    /\ argv = {}
    /\ now = 0
    /\ state = DEFAULT_STATE(0)
    /\ spotIdx = 1
    /\ allAlerts = <<>>
    /\ newAlerts = <<>>
    /\ stdout = <<>>
    /\ stderr = <<>>

\* no run of the script yet
NoCycleYet ==
    /\ clock = StartClock
    /\ ProcessIdle
    /\ emitCount = NoAlertsSent
    /\ withheld = {}
    /\ cycles = 0
    /\ writes = 0
    /\ raised = FALSE

\* no state file and no config file
CycleInit ==
    /\ NoCycleYet
    /\ disk = NoFile
    /\ diskAtStart = NoFile
    /\ localConfig = NoConfigFile
    /\ globalConfig = NoConfigFile

\* no evaluator call is under way
EvalIdle ==
    /\ ef = DayForecast(StartClock, 0, 0, "FLAT")
    /\ ec = DEFAULT_ALERT_CONFIG
    /\ en = StartClock
    /\ ed = <<>>
    /\ quietCheck = <<>>

\* no call of evaluateForecasts, generateAlert or the state store under way
CallIdle ==
    /\ efs = <<>>
    /\ eds = <<>>
    /\ ea = <<>>
    /\ sent = <<>>
    /\ stateBefore = DEFAULT_STATE(0)
    /\ refiltered = <<>>
    /\ heap = <<>>
    /\ loaded = <<>>

Init == CycleInit /\ EvalIdle /\ CallIdle

\* the time from one run of the script to the next: none, one or four
\* periods of the cron schedule, or a day more than the retention time
Delays == {0, CronIntervalHours, HoursPerDay, (RetentionDays + 1) * HoursPerDay}

\* the script is run, some time after the last run; main(), lines 30-46: the
\* flags, now, loadState
StartCycle ==
    /\ pc = "idle"
    /\ cycles < MaxCycles
    /\ \E a \in Invocations :
          /\ argv' = a
          /\ stdout' = IF ~cronMode(a) /\ ~jsonOutput(a)
                       THEN <<Out("checking", <<>>)>> ELSE <<>>
    /\ \E dt \in Delays :
          /\ clock' = clock + dt
          /\ now' = clock + dt
          /\ state' = loadState(disk, clock + dt)
    /\ spotIdx' = 1
    /\ allAlerts' = <<>>
    /\ newAlerts' = <<>>
    /\ pc' = "fetch"
    /\ diskAtStart' = disk
    /\ cycles' = cycles + 1
    /\ writes' = 0
    /\ raised' = FALSE
    /\ stderr' = <<>>
    /\ UNCHANGED <<disk, emitCount, withheld, localConfig, globalConfig>>
    /\ UNCHANGED <<evalVars, callVars>>

\* what one pass of the loop body prints before the alert is generated
SpotOutput(a, spot, forecasts, nowDate) ==
    (IF ~cronMode(a) /\ ~jsonOutput(a)
     THEN <<Out("spot", <<spot>>), Out("forecasts", forecasts)>> ELSE <<>>)
    \o (IF debugMode(a)
        THEN <<Out("debug", evaluateForecasts(forecasts, DEFAULT_ALERT_CONFIG, nowDate))>>
        ELSE <<>>)

\* main(), lines 48-85: one pass of the loop over spotsToCheck
AfterSpot ==
    /\ spotIdx' = spotIdx + 1
    /\ pc' = IF spotIdx + 1 > Len(spotsToCheck) THEN "finish" ELSE "fetch"
    /\ UNCHANGED <<clock, disk, argv, now, state, diskAtStart, emitCount, withheld,
                   cycles, writes, localConfig, globalConfig>>
    /\ UNCHANGED <<evalVars, callVars>>

FetchOk ==
    /\ pc = "fetch"
    /\ \E forecasts \in FetchResults(now) :
          LET spot == spotsToCheck[spotIdx]
              alert == generateAlert(spot, forecasts, DEFAULT_ALERT_CONFIG, now)
              threw == alert # <<>> /\ filterNewAlertsThrows(alert[1], state)
              newAlert == IF alert = <<>> \/ threw THEN <<>>
                          ELSE filterNewAlerts(alert[1], state)
          IN /\ stdout' = stdout \o SpotOutput(argv, spot, forecasts, now)
             /\ allAlerts' = allAlerts \o alert
             /\ newAlerts' = newAlerts \o newAlert
             /\ raised' = (raised \/ threw)
             /\ stderr' = stderr \o (IF threw THEN <<Out("Error fetching", <<spot>>)>>
                                     ELSE <<>>)
    /\ AfterSpot

\* mutant of FetchFails: the error leaves the loop and ends main
FetchFailsAborts ==
    /\ pc = "fetch"
    /\ stderr' = Append(stderr, Out("Error fetching", <<spotsToCheck[spotIdx]>>))
    /\ pc' = "done"
    /\ UNCHANGED <<clock, disk, argv, now, state, spotIdx, allAlerts, newAlerts, stdout,
                   diskAtStart, emitCount, withheld, cycles, writes, raised,
                   localConfig, globalConfig>>
    /\ UNCHANGED <<evalVars, callVars>>

\* fetchDailyForecasts throws: the catch logs to stderr and the loop goes on
\* (a throw of filterNewAlerts is caught the same way, in FetchOk)
FetchFails ==
    /\ pc = "fetch"
    /\ stdout' = stdout \o (IF ~cronMode(argv) /\ ~jsonOutput(argv)
                            THEN <<Out("spot", <<spotsToCheck[spotIdx]>>)>> ELSE <<>>)
    /\ stderr' = Append(stderr, Out("Error fetching", <<spotsToCheck[spotIdx]>>))
    /\ UNCHANGED <<allAlerts, newAlerts, raised>>
    /\ AfterSpot

\* main(), lines 87-125: what the cycle prints after the loop, the state it
\* leaves and whether it wrote the file. `at` is the new Date() of
\* updateStateAfterCheck
Outcome(out, st, saved) == [out |-> out, state |-> st, saved |-> saved]

\* mutant of cronBranch: the state updated before the quiet-hours return
cronBranchMarksQuiet(a, st, news, nowDate, at) ==
    IF ~forceMode(a) /\ shouldSuppressNotification(DEFAULT_ALERT_CONFIG, nowDate).suppress
    THEN IF Len(news) > 0
         THEN Outcome(<<>>, updateStateAfterCheck(st, news, at), TRUE)
         ELSE Outcome(<<>>, st, FALSE)
    ELSE IF Len(news) > 0
    THEN Outcome(<<Out("summary", news)>>, updateStateAfterCheck(st, news, at), TRUE)
    ELSE Outcome(<<>>, st, FALSE)

\* mutant of cronBranch: the state updated whether or not there is a new alert
cronBranchAlwaysSaves(a, st, news, nowDate, at) ==
    IF ~forceMode(a) /\ shouldSuppressNotification(DEFAULT_ALERT_CONFIG, nowDate).suppress
    THEN Outcome(<<>>, st, FALSE)
    ELSE IF Len(news) > 0
    THEN Outcome(<<Out("summary", news)>>, updateStateAfterCheck(st, news, at), TRUE)
    ELSE Outcome(<<>>, updateStateAfterCheck(st, news, at), TRUE)

\* mutant of cronBranch: --force not looked at
cronBranchIgnoresForce(a, st, news, nowDate, at) ==
    IF shouldSuppressNotification(DEFAULT_ALERT_CONFIG, nowDate).suppress
    THEN Outcome(<<>>, st, FALSE)
    ELSE IF Len(news) > 0
    THEN Outcome(<<Out("summary", news)>>, updateStateAfterCheck(st, news, at), TRUE)
    ELSE Outcome(<<>>, st, FALSE)

cronBranch(a, st, news, nowDate, at) ==
    IF ~forceMode(a) /\ shouldSuppressNotification(DEFAULT_ALERT_CONFIG, nowDate).suppress
    THEN Outcome(<<>>, st, FALSE)
    ELSE IF Len(news) > 0
    THEN Outcome(<<Out("summary", news)>>, updateStateAfterCheck(st, news, at), TRUE)
    ELSE Outcome(<<>>, st, FALSE)

manualBranch(alls, news) ==
    <<Out("ALERTS", <<>>)>> \o
    (IF Len(alls) = 0
     THEN <<Out("No alerts", <<>>)>>
     ELSE <<Out("summary", alls)>> \o
          (IF Len(news) < Len(alls)
           THEN <<Out("already sent", <<CountForecasts(alls) - CountForecasts(news)>>)>>
           ELSE <<>>))

\* mutant of afterLoop: the manual mode records the new alerts it showed
afterLoopManualSaves(a, st, alls, news, nowDate, at) ==
    IF cronMode(a) THEN cronBranch(a, st, news, nowDate, at)
    ELSE IF jsonOutput(a) THEN Outcome(<<Out("json", <<alls, news>>)>>, st, FALSE)
    ELSE IF Len(news) > 0
    THEN Outcome(manualBranch(alls, news), updateStateAfterCheck(st, news, at), TRUE)
    ELSE Outcome(manualBranch(alls, news), st, FALSE)

\* mutant of afterLoop: the --json mode records the new alerts it printed
afterLoopJsonSaves(a, st, alls, news, nowDate, at) ==
    IF cronMode(a) THEN cronBranch(a, st, news, nowDate, at)
    ELSE IF jsonOutput(a)
    THEN IF Len(news) > 0
         THEN Outcome(<<Out("json", <<alls, news>>)>>,
                      updateStateAfterCheck(st, news, at), TRUE)
         ELSE Outcome(<<Out("json", <<alls, news>>)>>, st, FALSE)
    ELSE Outcome(manualBranch(alls, news), st, FALSE)

afterLoop(a, st, alls, news, nowDate, at) ==
    IF cronMode(a) THEN cronBranch(a, st, news, nowDate, at)
    ELSE IF jsonOutput(a) THEN Outcome(<<Out("json", <<alls, news>>)>>, st, FALSE)
    ELSE Outcome(manualBranch(alls, news), st, FALSE)

\* the keys a cron cycle's outcome printed, each counted once more
Counted(count, keys) ==
    [k \in DOMAIN count \cup keys |->
        (IF k \in DOMAIN count THEN count[k] ELSE 0) + (IF k \in keys THEN 1 ELSE 0)]

Finish ==
    /\ pc = "finish"
    /\ LET r == afterLoop(argv, state, allAlerts, newAlerts, now, clock)
       IN /\ stdout' = stdout \o r.out
          /\ state' = r.state
          /\ disk' = IF r.saved THEN saveState(r.state) ELSE disk
          /\ writes' = IF r.saved THEN writes + 1 ELSE writes
          /\ emitCount' = IF cronMode(argv) THEN Counted(emitCount, Printed(r.out))
                          ELSE emitCount
    /\ pc' = "done"
    /\ UNCHANGED <<clock, argv, now, spotIdx, allAlerts, newAlerts, diskAtStart,
                   withheld, cycles, raised, stderr, localConfig, globalConfig>>
    /\ UNCHANGED <<evalVars, callVars>>

\* the cycle ran as a cron job; it ran inside the default quiet hours (10pm to
\* 6am); it returned at the quiet-hours check
CronCycle == cronMode(argv)
InQuietHours ==
    \/ getHours(now) >= DEFAULT_ALERT_CONFIG.quietHours.start
    \/ getHours(now) < DEFAULT_ALERT_CONFIG.quietHours.end
Suppressed ==
    /\ cronMode(argv) /\ ~forceMode(argv)
    /\ shouldSuppressNotification(DEFAULT_ALERT_CONFIG, now).suppress

\* the process ends.  A quiet-hours cron cycle without --force leaves its new
\* alerts withheld; a cron cycle outside quiet hours is the next check they
\* wait for; any printed key is withheld no longer
Exit ==
    /\ pc = "done"
    /\ withheld' =
          IF Suppressed
          THEN withheld \cup AlertKeys(newAlerts)
          ELSE IF CronCycle /\ ~InQuietHours THEN {}
          ELSE IF CronCycle THEN withheld \ Printed(stdout)
          ELSE withheld
    /\ pc' = "idle"
    /\ argv' = {}
    /\ now' = 0
    /\ state' = DEFAULT_STATE(0)
    /\ spotIdx' = 1
    /\ allAlerts' = <<>>
    /\ newAlerts' = <<>>
    /\ stdout' = <<>>
    /\ diskAtStart' = disk
    /\ writes' = 0
    /\ raised' = FALSE
    /\ stderr' = <<>>
    /\ UNCHANGED <<clock, disk, emitCount, cycles, localConfig, globalConfig>>
    /\ UNCHANGED <<evalVars, callVars>>

Next == StartCycle \/ FetchOk \/ FetchFails \/ Finish \/ Exit

Spec == Init /\ [][Next]_vars

----------------------------------------------------------------------------
(* The check cycles run on a state file that is not what saveState wrote *)

\* data/state.json holding a text that is not JSON, or the JSON object {}
\* or {"lastCheck": ...} without alertsSent
GarbageFile == [exists |-> TRUE, json |-> FALSE, content |-> DEFAULT_STATE(0)]
NoAlertsSentFile == [exists |-> TRUE, json |-> TRUE, content |-> [lastCheck |-> 0]]
CorruptFiles == {GarbageFile, NoAlertsSentFile}

InitCorrupt ==
    /\ NoCycleYet
    /\ disk \in CorruptFiles
    /\ diskAtStart = disk
    /\ localConfig = NoConfigFile
    /\ globalConfig = NoConfigFile
    /\ EvalIdle
    /\ CallIdle

SpecCorrupt == InitCorrupt /\ [][Next]_vars

----------------------------------------------------------------------------
(* The check cycles where the process may die inside saveState *)

\* what fs.writeFile(STATE_FILE, text) leaves when the process dies inside it:
\* the file as it was (not opened yet), the file opened with flag 'w' and so
\* truncated, holding nothing or a proper prefix of the text, which is not
\* JSON, or the whole text
WriteCutShort(file, st) == {file, GarbageFile, saveState(st)}

\* main(), lines 87-105, of a cycle that saves, the process dying inside
\* saveState: the summary is printed (line 101) before the state is saved
CrashInSave ==
    /\ pc = "finish"
    /\ LET r == afterLoop(argv, state, allAlerts, newAlerts, now, clock)
       IN /\ r.saved
          /\ stdout' = stdout \o r.out
          /\ state' = r.state
          /\ disk' \in WriteCutShort(disk, r.state)
          /\ emitCount' = IF cronMode(argv) THEN Counted(emitCount, Printed(r.out))
                          ELSE emitCount
    /\ writes' = writes + 1
    /\ pc' = "done"
    /\ UNCHANGED <<clock, argv, now, spotIdx, allAlerts, newAlerts, diskAtStart,
                   withheld, cycles, raised, stderr, localConfig, globalConfig>>
    /\ UNCHANGED <<evalVars, callVars>>

NextCrash == Next \/ CrashInSave

SpecCrash == Init /\ [][NextCrash]_vars

----------------------------------------------------------------------------
(* The check cycles where a second cron process overlaps the running one *)

\* the loop of main, lines 48-85, over what the fetches returned (no
\* forecast for a spot whose fetch failed): the new alerts, from spot i on
RECURSIVE LoopNewAlerts(_, _, _, _)
LoopNewAlerts(fetched, st, nowDate, i) ==
    IF i > Len(spotsToCheck) THEN <<>>
    ELSE LET alert == generateAlert(spotsToCheck[i], fetched[i], DEFAULT_ALERT_CONFIG,
                                    nowDate)
         IN (IF alert = <<>> THEN <<>> ELSE filterNewAlerts(alert[1], st))
            \o LoopNewAlerts(fetched, st, nowDate, i + 1)

\* another process runs main() with the same flags while this cron cycle,
\* having loaded the file, has not yet saved it, and no one else has: it
\* loads the same file, fetches, filters, prints and saves before this one
OverlappingCycle ==
    /\ pc = "finish"
    /\ cronMode(argv)
    /\ cycles <= MaxOverlaps
    /\ disk = diskAtStart
    /\ \E fetched \in [DOMAIN spotsToCheck -> FetchResults(clock) \cup {<<>>}] :
          LET st == loadState(disk, clock)
              news == LoopNewAlerts(fetched, st, clock, 1)
              r == cronBranch(argv, st, news, clock, clock)
          IN /\ r.saved
             /\ disk' = saveState(r.state)
             /\ emitCount' = Counted(emitCount, Printed(r.out))
    /\ UNCHANGED <<clock, pc, argv, now, state, spotIdx, allAlerts, newAlerts, stdout,
                   diskAtStart, withheld, cycles, writes, raised, stderr,
                   localConfig, globalConfig>>
    /\ UNCHANGED <<evalVars, callVars>>

NextOverlap == Next \/ OverlappingCycle

SpecOverlap == Init /\ [][NextOverlap]_vars

----------------------------------------------------------------------------
(* The check cycles run where config files exist *)

\* ./surf-check.json setting waveMax to 2, ~/.surf-check.json turning quiet
\* hours off (both well-formed JSON)
SmallWavesFile == ConfigFile({"waveMax"}, [DEFAULT_ALERT_CONFIG EXCEPT !.waveMax = 2])
NoQuietFile ==
    ConfigFile({"enabled"}, [DEFAULT_ALERT_CONFIG EXCEPT !.quietHours.enabled = FALSE])

InitConfig ==
    /\ NoCycleYet
    /\ disk = NoFile
    /\ diskAtStart = NoFile
    /\ \E files \in {<<SmallWavesFile, NoQuietFile>>, <<SmallWavesFile, NoConfigFile>>,
                      <<NoConfigFile, NoQuietFile>>} :
          /\ localConfig = files[1]
          /\ globalConfig = files[2]
    /\ EvalIdle
    /\ CallIdle

SpecConfig == InitConfig /\ [][Next]_vars

----------------------------------------------------------------------------
(* One call of evaluateForecast, on any forecast day, config and now *)

\* the hours of the day
Hours == 0..(HoursPerDay - 1)

\* the instants of StartDay, local time
NowDates == {StartClock + h : h \in Hours}

\* the forecast timestamps: the days from the day before StartDay to MaxDaysOut
\* days after it, stamped at UTC midnight or at the spot's local midnight
ForecastDates ==
    {(StartDay + k) * HoursPerDay + h : k \in (0 - 1)..MaxDaysOut, h \in {0, 0 - TzOffset}}

WaveRanges == {w \in (0..MaxWave) \X (0..MaxWave) : w[1] <= w[2]}

\* the configs: the default wave range and a narrower one
EvalConfigs ==
    {DEFAULT_ALERT_CONFIG, [DEFAULT_ALERT_CONFIG EXCEPT !.waveMin = 1, !.waveMax = 2]}

InitEval ==
    /\ CycleInit
    /\ ef \in {DayForecast(d, w[1], w[2], r) :
                  d \in ForecastDates, w \in WaveRanges,
                  r \in RatingKey \cup {UnknownRatingKey} \cup InheritedKeys}
    /\ ec \in EvalConfigs
    /\ en \in NowDates
    /\ ed = <<>>
    /\ quietCheck = <<>>
    /\ CallIdle

Evaluate ==
    /\ ed = <<>>
    /\ ed' = <<evaluateForecast(ef, ec, en)>>
    /\ UNCHANGED <<ef, ec, en, quietCheck>>
    /\ UNCHANGED <<cycleVars, callVars>>

NextEval == Evaluate

SpecEval == InitEval /\ [][NextEval]_vars

----------------------------------------------------------------------------
(* One call of evaluateForecasts or generateAlert, on any list of days *)

\* the days of a list: today to 3 days out, rated Poor or Good, waves 3-4ft
ListDays ==
    {DayForecast(StoreDate(StartDay + k), 3, 4, r) : k \in 0..3, r \in {"POOR", "GOOD"}}

\* the lists, in any order, a day possibly twice
ListForecasts == UNION {[1..n -> ListDays] : n \in 0..MaxForecasts}

\* the configs: a window of 2 days and the default one of 7
ListConfigs == {[DEFAULT_ALERT_CONFIG EXCEPT !.forecastDays = 2], DEFAULT_ALERT_CONFIG}

\* now: local midnight, 07:00 and 09:00 of StartDay
ListNows == {StartClock, StartClock + 7, StartClock + 9}

InitList ==
    /\ NoCycleYet
    /\ disk = NoFile
    /\ diskAtStart = NoFile
    /\ localConfig = NoConfigFile
    /\ globalConfig = NoConfigFile
    /\ ef = DayForecast(StartClock, 0, 0, "FLAT")
    /\ ec \in ListConfigs
    /\ en \in ListNows
    /\ ed = <<>>
    /\ quietCheck = <<>>
    /\ efs \in ListForecasts
    /\ eds = <<>>
    /\ ea = <<>>
    /\ sent = <<>>
    /\ stateBefore = DEFAULT_STATE(0)
    /\ refiltered = <<>>
    /\ heap = <<>>
    /\ loaded = <<>>

\* evaluateForecasts(forecasts, config, now)
EvaluateAll ==
    /\ pc = "idle"
    /\ eds' = evaluateForecasts(efs, ec, en)
    /\ pc' = "evaluated"
    /\ UNCHANGED cycleVarsButPc
    /\ UNCHANGED <<evalVars, efs, ea, sent, stateBefore, refiltered, heap, loaded>>

\* generateAlert(spot, forecasts, config, now); eds is its `decisions`
Generate ==
    /\ pc = "idle"
    /\ eds' = evaluateForecasts(efs, ec, en)
    /\ ea' = generateAlert(SPOTS.BELMAR, efs, ec, en)
    /\ pc' = "generated"
    /\ UNCHANGED cycleVarsButPc
    /\ UNCHANGED <<evalVars, efs, sent, stateBefore, refiltered, heap, loaded>>

(* evaluateForecasts on one day, at any time of day of now and of the day's *)
(* timestamp                                                               *)

\* the local hours of a forecast timestamp: midnight, noon and 19:00 (which is
\* UTC midnight)
WindowHours == {0, 12, HoursPerDay + TzOffset}

\* the forecast days: from the day before StartDay to MaxDaysOut days after
WindowDays ==
    {DayForecast(StoreDate(StartDay + k) + h, 3, 4, "GOOD") :
        k \in (0 - 1)..MaxDaysOut, h \in WindowHours}

InitWindow ==
    /\ NoCycleYet
    /\ disk = NoFile
    /\ diskAtStart = NoFile
    /\ localConfig = NoConfigFile
    /\ globalConfig = NoConfigFile
    /\ ef = DayForecast(StartClock, 0, 0, "FLAT")
    /\ ec \in ListConfigs
    /\ en \in NowDates
    /\ ed = <<>>
    /\ quietCheck = <<>>
    /\ efs \in {<<f>> : f \in WindowDays}
    /\ eds = <<>>
    /\ ea = <<>>
    /\ sent = <<>>
    /\ stateBefore = DEFAULT_STATE(0)
    /\ refiltered = <<>>
    /\ heap = <<>>
    /\ loaded = <<>>

NextWindow == EvaluateAll

SpecWindow == InitWindow /\ [][NextWindow]_vars

NextList == EvaluateAll \/ Generate

SpecList == InitList /\ [][NextList]_vars

----------------------------------------------------------------------------
(* One call of shouldSuppressNotification, on any quiet hours and hour *)

QuietConfigs ==
    {[DEFAULT_ALERT_CONFIG EXCEPT !.quietHours = [enabled |-> e, start |-> s, end |-> t]] :
        e \in BOOLEAN, s \in Hours, t \in Hours}

InitQuiet ==
    /\ CycleInit
    /\ ef = DayForecast(StartClock, 0, 0, "FLAT")
    /\ ec \in QuietConfigs
    /\ en \in NowDates
    /\ ed = <<>>
    /\ quietCheck = <<>>
    /\ CallIdle

Suppress ==
    /\ quietCheck = <<>>
    /\ quietCheck' = <<shouldSuppressNotification(ec, en)>>
    /\ UNCHANGED <<ef, ec, en, ed>>
    /\ UNCHANGED <<cycleVars, callVars>>

NextQuiet == Suppress

SpecQuiet == InitQuiet /\ [][NextQuiet]_vars

----------------------------------------------------------------------------
(* The state store called on any state and alert: filterNewAlerts, then      *)
(* updateStateAfterCheck, then filterNewAlerts again; or cleanupOldAlerts    *)

\* the UTC days of the records and forecasts: 8, 7 and 6 days before
\* StartDay, StartDay and the day after
StoreDays == {StartDay - (RetentionDays + 1), StartDay - RetentionDays,
              StartDay - (RetentionDays - 1), StartDay, StartDay + 1}

\* the sent-timestamps of the records: nine days ago, or just now
StoreStamps == {StartClock - (RetentionDays + 2) * HoursPerDay, StartClock}

StoreKeys == {getAlertKey(SPOTS.BELMAR.id, StoreDate(day)) : day \in StoreDays}

StoreStates ==
    {[lastCheck |-> StartClock - HoursPerDay, alertsSent |-> sentAt] :
        sentAt \in UNION {[keys -> StoreStamps] : keys \in SUBSET StoreKeys}}

\* the alerts: a spot and one, two or three forecast days in date order
StoreForecasts ==
    LET f(day) == DayForecast(StoreDate(day), 3, 4, "GOOD")
        old == StartDay - (RetentionDays + 1)
    IN {<<f(old)>>, <<f(StartDay)>>, <<f(StartDay + 1)>>,
        <<f(old), f(StartDay)>>, <<f(old), f(StartDay + 1)>>,
        <<f(StartDay), f(StartDay + 1)>>, <<f(old), f(StartDay), f(StartDay + 1)>>}

StoreAlerts ==
    {[spot |-> spot, forecasts |-> fs, generatedAt |-> StartClock] :
        spot \in {SPOTS.BELMAR, SPOTS.LONG_BRANCH}, fs \in StoreForecasts}

\* the instants of the calls: local midnight, and the hours before and after
\* the UTC date changes (19:00 local)
StoreClocks == {StartClock, StartClock + 18, StartClock + 19}

InitStore ==
    /\ clock \in StoreClocks
    /\ state \in StoreStates
    /\ allAlerts \in {<<a>> : a \in StoreAlerts}
    /\ pc = "store"
    /\ argv = {}
    /\ now = 0
    /\ spotIdx = 1
    /\ newAlerts = <<>>
    /\ stdout = <<>>
    /\ disk = NoFile
    /\ diskAtStart = NoFile
    /\ emitCount = NoAlertsSent
    /\ withheld = {}
    /\ cycles = 0
    /\ writes = 0
    /\ raised = FALSE
    /\ stderr = <<>>
    /\ localConfig = NoConfigFile
    /\ globalConfig = NoConfigFile
    /\ EvalIdle
    /\ CallIdle

\* newAlert = filterNewAlerts(alert, state)
FilterNew ==
    /\ pc = "store"
    /\ newAlerts' = filterNewAlerts(allAlerts[1], state)
    /\ pc' = "filtered"
    /\ UNCHANGED <<clock, disk, argv, now, state, spotIdx, allAlerts, stdout, diskAtStart,
                   emitCount, withheld, cycles, writes, raised, stderr, localConfig,
                   globalConfig>>
    /\ UNCHANGED <<evalVars, callVars>>

\* updateStateAfterCheck(state, sentAlerts), given the new alerts (as main
\* gives them) or the whole alert; its last step is saveState
UpdateState ==
    /\ pc = "filtered"
    /\ \E alerts \in {newAlerts, allAlerts} :
          /\ sent' = alerts
          /\ state' = updateStateAfterCheck(state, alerts, clock)
          /\ disk' = saveState(updateStateAfterCheck(state, alerts, clock))
    /\ stateBefore' = state
    /\ writes' = writes + 1
    /\ pc' = "updated"
    /\ UNCHANGED <<clock, argv, now, spotIdx, allAlerts, newAlerts, stdout, diskAtStart,
                   emitCount, withheld, cycles, raised, stderr, localConfig, globalConfig>>
    /\ UNCHANGED <<evalVars, efs, eds, ea, refiltered, heap, loaded>>

\* filterNewAlerts(alert, state) once more, with the same alert
FilterAgain ==
    /\ pc = "updated"
    /\ refiltered' = filterNewAlerts(allAlerts[1], state)
    /\ pc' = "refiltered"
    /\ UNCHANGED cycleVarsButPc
    /\ UNCHANGED <<evalVars, efs, eds, ea, sent, stateBefore, heap, loaded>>

\* cleanupOldAlerts(state)
Cleanup ==
    /\ pc = "store"
    /\ stateBefore' = state
    /\ state' = cleanupOldAlerts(state, clock)
    /\ pc' = "cleaned"
    /\ UNCHANGED <<clock, disk, argv, now, spotIdx, allAlerts, newAlerts, stdout,
                   diskAtStart, emitCount, withheld, cycles, writes, raised, stderr,
                   localConfig, globalConfig>>
    /\ UNCHANGED <<evalVars, efs, eds, ea, sent, refiltered, heap, loaded>>

\* markAlertSent(state, spotId, forecastDate), for the alert's spot and first
\* forecast day; the call reads the clock
Mark ==
    /\ pc = "store"
    /\ stateBefore' = state
    /\ state' = markAlertSent(state, allAlerts[1].spot.id,
                              allAlerts[1].forecasts[1].date, clock)
    /\ pc' = "marked"
    /\ UNCHANGED <<clock, disk, argv, now, spotIdx, allAlerts, newAlerts, stdout,
                   diskAtStart, emitCount, withheld, cycles, writes, raised, stderr,
                   localConfig, globalConfig>>
    /\ UNCHANGED <<evalVars, efs, eds, ea, sent, refiltered, heap, loaded>>

\* markAlertSent once more for the same spot and day, at once or an hour later
MarkAgain ==
    /\ pc = "marked"
    /\ \E later \in {0, 1} :
          /\ clock' = clock + later
          /\ state' = markAlertSent(state, allAlerts[1].spot.id,
                                    allAlerts[1].forecasts[1].date, clock + later)
    /\ stateBefore' = state
    /\ pc' = "remarked"
    /\ UNCHANGED <<disk, argv, now, spotIdx, allAlerts, newAlerts, stdout,
                   diskAtStart, emitCount, withheld, cycles, writes, raised, stderr,
                   localConfig, globalConfig>>
    /\ UNCHANGED <<evalVars, efs, eds, ea, sent, refiltered, heap, loaded>>

(* cleanupOldAlerts on records of spot ids that hold a ':' *)

\* the spot ids: two with a ':' (second part beginning with a letter, with a
\* digit below "2") and Belmar's
ColonIds == {<<"nj", "belmar">>, <<"5842041f", "16th-ave">>, SPOTS.BELMAR.id}

\* the UTC days of the records: 8 and 7 days before StartDay, and the day after
ColonDays == {StartDay - (RetentionDays + 1), StartDay - RetentionDays, StartDay + 1}

ColonKeys == {getAlertKey(id, StoreDate(day)) : id \in ColonIds, day \in ColonDays}

ColonStates ==
    {[lastCheck |-> StartClock - HoursPerDay, alertsSent |-> [k \in keys |-> StartClock]] :
        keys \in SUBSET ColonKeys}

InitColon ==
    /\ clock \in StoreClocks
    /\ state \in ColonStates
    /\ allAlerts = <<>>
    /\ pc = "store"
    /\ argv = {}
    /\ now = 0
    /\ spotIdx = 1
    /\ newAlerts = <<>>
    /\ stdout = <<>>
    /\ disk = NoFile
    /\ diskAtStart = NoFile
    /\ emitCount = NoAlertsSent
    /\ withheld = {}
    /\ cycles = 0
    /\ writes = 0
    /\ raised = FALSE
    /\ stderr = <<>>
    /\ localConfig = NoConfigFile
    /\ globalConfig = NoConfigFile
    /\ EvalIdle
    /\ CallIdle

NextColon == Cleanup

SpecColon == InitColon /\ [][NextColon]_vars

NextStore == FilterNew \/ UpdateState \/ FilterAgain \/ Cleanup \/ Mark \/ MarkAgain

SpecStore == InitStore /\ [][NextStore]_vars

----------------------------------------------------------------------------
(* One process that calls loadState twice and markAlertSent on the first of *)
(* the returned states; the alertsSent objects are kept in a heap, a state  *)
(* holding a reference to one                                               *)

\* the object the module-level DEFAULT_STATE.alertsSent refers to, and the
\* one the n-th JSON.parse built
DefaultAlertsSent == <<"DEFAULT_STATE.alertsSent", 0>>
ParsedAlertsSent(n) == <<"JSON.parse(data).alertsSent", n>>

\* the AlertState a returned state stands for: its alertsSent read in the heap
Deref(st) == [lastCheck |-> st.lastCheck, alertsSent |-> heap[st.alertsSent]]

\* loadState falls back to `{ ...DEFAULT_STATE }`: the spread copies the
\* properties of DEFAULT_STATE, so the copy refers to the same alertsSent
\* object
FellBack(st) == st.alertsSent = DefaultAlertsSent

\* the state files: none, one that is not JSON, one holding a record
FreshFiles ==
    {NoFile, GarbageFile,
     saveState(markAlertSent(DEFAULT_STATE(StartClock - HoursPerDay), SPOTS.BELMAR.id,
                             StoreDate(StartDay), StartClock - HoursPerDay))}

\* the (spot id, forecast date) pairs recorded
FreshSpots == {SPOTS.BELMAR, SPOTS.LONG_BRANCH}
FreshDays == {StartDay, StartDay + 1, StartDay + 2}

InitFresh ==
    /\ NoCycleYet
    /\ disk \in FreshFiles
    /\ diskAtStart = disk
    /\ localConfig = NoConfigFile
    /\ globalConfig = NoConfigFile
    /\ EvalIdle
    /\ efs = <<>>
    /\ eds = <<>>
    /\ ea = <<>>
    /\ sent = <<>>
    /\ stateBefore = DEFAULT_STATE(0)
    /\ refiltered = <<>>
    /\ heap = [o \in {DefaultAlertsSent} |-> NoAlertsSent]
    /\ loaded = <<>>

\* loadState(), at most twice
LoadState ==
    /\ Len(loaded) < 2
    /\ IF disk.exists /\ disk.json
       THEN LET o == ParsedAlertsSent(Len(loaded) + 1)
                parsed == JSONparse(disk.content)
            IN /\ heap' = [x \in DOMAIN heap \cup {o} |->
                              IF x = o THEN parsed.alertsSent ELSE heap[x]]
               /\ loaded' = Append(loaded, [lastCheck |-> parsed.lastCheck,
                                            alertsSent |-> o])
       ELSE /\ heap' = heap
            /\ loaded' = Append(loaded, [lastCheck |-> DEFAULT_STATE(StartClock).lastCheck,
                                         alertsSent |-> DefaultAlertsSent])
    /\ UNCHANGED <<cycleVars, evalVars>>
    /\ UNCHANGED <<efs, eds, ea, sent, stateBefore, refiltered>>

\* markAlertSent(first, spotId, forecastDate) on the first state returned: it
\* assigns into the object first.alertsSent refers to
MarkFirst ==
    /\ Len(loaded) >= 1
    /\ \E spot \in FreshSpots, day \in FreshDays :
          /\ ~wasAlertSent(Deref(loaded[1]), spot.id, StoreDate(day))
          /\ heap' = [heap EXCEPT ![loaded[1].alertsSent] =
                         markAlertSent(Deref(loaded[1]), spot.id, StoreDate(day),
                                       clock).alertsSent]
    /\ UNCHANGED <<cycleVars, evalVars>>
    /\ UNCHANGED <<efs, eds, ea, sent, stateBefore, refiltered, loaded>>

NextFresh == LoadState \/ MarkFirst

SpecFresh == InitFresh /\ [][NextFresh]_vars

----------------------------------------------------------------------------
(* Properties of the check cycle (specification Spec) *)

\* the (spot id, forecast date) pairs the state file records
Recorded == IF disk.exists THEN DOMAIN disk.content.alertsSent ELSE {}

\* C1: over the cron cycles of a run, which share the state file, a
\* (spot id, forecast date) pair is printed by at most one cycle.
C1_AtMostOnce == \A k \in DOMAIN emitCount : emitCount[k] <= 1

\* a cron cycle outside quiet hours found again a pair an earlier cycle had
\* printed, and did not print it
C1_Witness ==
    /\ pc = "done" /\ CronCycle /\ ~InQuietHours
    /\ \E k \in AlertKeys(allAlerts) :
          k \in DOMAIN emitCount /\ emitCount[k] = 1 /\ k \notin Printed(stdout)

----------------------------------------------------------------------------
(* Properties of evaluateForecast (specification SpecEval) *)

\* the rank of each rating and the calendar days from now to a forecast day,
\* as the specification states them
RankOf ==
    [FLAT |-> 0, VERY_POOR |-> 0, POOR |-> 1, POOR_TO_FAIR |-> 1, FAIR |-> 2,
     FAIR_TO_GOOD |-> 3, GOOD |-> 4, GOOD_TO_EPIC |-> 5, EPIC |-> 5]
CalendarDaysOut == LocalDay(ef.date) - LocalDay(en)
RequiredRating ==
    IF CalendarDaysOut >= 4 THEN "FAIR_TO_GOOD"
    ELSE IF CalendarDaysOut >= 1 THEN "FAIR"
    ELSE "GOOD"

\* the forecast's wave range and the config's have a height in common
WavesOverlap == (ef.wave.min..ef.wave.max) \cap (ec.waveMin..ec.waveMax) # {}

\* the day is not in the past and not a same-day forecast past 8am
ReachesWaveGate ==
    /\ CalendarDaysOut >= 0
    /\ ~(CalendarDaysOut = 0 /\ getHours(en) >= 8)

Evaluated == ed # <<>>

\* C4: a day that passes the past-date, dawn-patrol and wave-range gates
\* alerts if and only if its rating ranks at least the minimum rating of its
\* daysOut (Fair-Good from 4 days, Fair for 1 to 3, Good for 0).
C4_TierDecides ==
    (Evaluated /\ ReachesWaveGate /\ WavesOverlap /\ ef.rating.key \in RatingKey)
        => (ed[1].shouldAlert <=> RankOf[ef.rating.key] >= RankOf[RequiredRating])

\* the example: 2 days out, waves in the default range, Fair, at 10:00
C4_Witness ==
    /\ Evaluated /\ ed[1].shouldAlert
    /\ CalendarDaysOut = 2 /\ getHours(en) = 10
    /\ ef.rating.key = "FAIR" /\ ef.wave.min = 2
    /\ ec = DEFAULT_ALERT_CONFIG

\* C5 as stated: the rank of the minimum rating does not decrease as daysOut
\* decreases: the minimum used at this daysOut ranks at least the minimum of
\* every larger daysOut.
C5_Original ==
    (Evaluated /\ ed[1].reason.kind \in {"below", "ok"})
        => \A d1 \in (ed[1].reason.daysOut + 1)..(MaxDaysOut + 1) :
              RATING_VALUES[getMinRatingForDaysOut(ed[1].reason.daysOut)]
                  >= RATING_VALUES[getMinRatingForDaysOut(d1)]

\* C5: the minimum rating is strictest on the day itself and is otherwise
\* lower nearer the present: the day-of minimum ranks at least the minimum of
\* every later day, and from 1 day out on the minimum used ranks at most the
\* minimum of every larger daysOut.
C5_TierShape ==
    (Evaluated /\ ed[1].reason.kind \in {"below", "ok"})
        => LET d2 == ed[1].reason.daysOut
               used == RATING_VALUES[getMinRatingForDaysOut(d2)]
           IN \A d1 \in (d2 + 1)..(MaxDaysOut + 1) :
                 IF d2 = 0
                 THEN used >= RATING_VALUES[getMinRatingForDaysOut(d1)]
                 ELSE used <= RATING_VALUES[getMinRatingForDaysOut(d1)]

\* a Fair day 2 days out alerts, which 4 days out it would not
C5_Witness ==
    /\ Evaluated /\ ed[1].reason.kind = "ok"
    /\ ed[1].reason.daysOut = 2 /\ getMinRatingForDaysOut(2) = "FAIR"
    /\ ef.rating.key = "FAIR"
    /\ RATING_VALUES[getMinRatingForDaysOut(4)] > RATING_VALUES["FAIR"]

\* C6: a forecast day whose calendar date is before today's never alerts.
C6_PastNeverAlerts ==
    (Evaluated /\ LocalDay(ef.date) < LocalDay(en)) => ~ed[1].shouldAlert

\* yesterday's forecast, Epic, waves in range, before 8am
C6_Witness ==
    /\ Evaluated /\ ~ed[1].shouldAlert
    /\ LocalDay(ef.date) < LocalDay(en)
    /\ ef.rating.key = "EPIC" /\ WavesOverlap /\ getHours(en) < 8

\* C7: a same-day forecast never alerts from 8am on; before 8am it alerts
\* when rated Good or better with waves in range.
C7_DawnPatrol ==
    (Evaluated /\ CalendarDaysOut = 0)
        => /\ getHours(en) >= 8 => ~ed[1].shouldAlert
           /\ (getHours(en) < 8 /\ WavesOverlap /\ ef.rating.key \in RatingKey
                  /\ RankOf[ef.rating.key] >= RankOf["GOOD"]) => ed[1].shouldAlert

\* today's forecast, Good, alerts at 07:00
C7_Witness ==
    /\ Evaluated /\ ed[1].shouldAlert
    /\ CalendarDaysOut = 0 /\ getHours(en) = 7 /\ ef.rating.key = "GOOD"

\* C8: a day that reaches the wave-range gate is turned down by it if and
\* only if its wave range and the config's are disjoint.
C8_WaveGateIsOverlap ==
    (Evaluated /\ ReachesWaveGate)
        => (ed[1].reason.kind \in {"small", "big"} <=> ~WavesOverlap)

\* a day whose largest wave equals the config's minimum passes the gate
C8_Witness ==
    /\ Evaluated /\ ReachesWaveGate
    /\ ef.wave.min < ef.wave.max /\ ef.wave.max = ec.waveMin
    /\ ed[1].reason.kind \notin {"small", "big"}

----------------------------------------------------------------------------
(* Properties of the quiet-hours gate (specification SpecQuiet) *)

\* the hours [start, end) of the day, wrapping past midnight when start > end
QuietSpan(start, end) ==
    IF start > end
    THEN {h \in Hours : h >= start} \cup {h \in Hours : h < end}
    ELSE {h \in Hours : start <= h /\ h < end}

\* C9: the gate suppresses exactly when quiet hours are enabled and the hour
\* lies in [start, end), wrapping overnight when start > end; start = end
\* never suppresses; 22 to 6 suppresses 23:00 and 05:00, not 12:00 or 06:00.
C9_QuietHoursGate ==
    quietCheck # <<>> =>
        LET q == ec.quietHours
            h == getHours(en)
        IN /\ quietCheck[1].suppress <=> (q.enabled /\ h \in QuietSpan(q.start, q.end))
           /\ q.start = q.end => ~quietCheck[1].suppress
           /\ (q.enabled /\ q.start = 22 /\ q.end = 6)
                 => /\ h \in {23, 5} => quietCheck[1].suppress
                    /\ h \in {12, 6} => ~quietCheck[1].suppress

\* 22 to 6 suppresses at 05:00
C9_Witness ==
    /\ quietCheck # <<>> /\ quietCheck[1].suppress
    /\ ec.quietHours = [enabled |-> TRUE, start |-> 22, end |-> 6]
    /\ getHours(en) = 5

----------------------------------------------------------------------------
(* More properties of evaluateForecast (specification SpecEval) *)

\* C15 as stated: a day whose rating key is none of the nine RatingKey
\* values never alerts, whatever its daysOut.
C15_Original ==
    (Evaluated /\ ef.rating.key \notin RatingKey) => ~ed[1].shouldAlert

\* C15, what the code does: a key that is neither a RatingKey nor the name
\* of a property RATING_VALUES inherits ranks 0 and never alerts; a key
\* naming an inherited property ("constructor") passes the rating test, and
\* the day alerts whenever it passes the date, dawn-patrol and wave gates.
C15_UnknownKey ==
    /\ (Evaluated /\ ef.rating.key \notin RatingKey \cup InheritedKeys)
          => ~ed[1].shouldAlert
    /\ (Evaluated /\ ef.rating.key \in InheritedKeys)
          => (ed[1].shouldAlert <=> (ReachesWaveGate /\ WavesOverlap))

\* a day rated "constructor", tomorrow, waves in range: it alerts
C15_Witness ==
    /\ Evaluated /\ ed[1].shouldAlert
    /\ ef.rating.key = "constructor" /\ CalendarDaysOut = 1

----------------------------------------------------------------------------
(* Properties of evaluateForecasts and generateAlert (specification SpecList) *)

\* the positions of the given days dated at most forecastDays days after now
InWindow == {i \in 1..Len(efs) : efs[i].date <= en + ec.forecastDays * 24}

\* the positions of the given days that are in the window and alert
Alerting == {i \in InWindow : evaluateForecast(efs[i], ec, en).shouldAlert}

\* the ways of listing n positions of a set in ascending order
Ascending(n, positions) ==
    {idx \in [1..n -> positions] : \A j, k \in 1..n : j < k => idx[j] < idx[k]}

\* C16: evaluateForecasts returns one decision for each given day dated at
\* most now + forecastDays days, none for a later day, in the order given,
\* each the decision evaluateForecast makes for that day.
C16_WindowInOrder ==
    pc = "evaluated" =>
        /\ Len(eds) = Cardinality(InWindow)
        /\ \E idx \in Ascending(Len(eds), InWindow) :
              \A j \in 1..Len(eds) : eds[j] = evaluateForecast(efs[idx[j]], ec, en)

\* three days given, the first beyond the window, the next at its very end
C16_Witness ==
    /\ pc = "evaluated"
    /\ Len(efs) = 3 /\ Len(eds) = 2
    /\ 1 \notin InWindow
    /\ efs[2].date = en + ec.forecastDays * 24
    /\ efs[3].date < efs[2].date

\* C17: generateAlert returns null if and only if no decision alerts;
\* otherwise an Alert of the given spot, generated at now, whose forecasts
\* are the days of the alerting decisions, which are the given days in the
\* window that alert, each once and in the order given.
C17_AlertBundlesAlerting ==
    pc = "generated" =>
        /\ ea = <<>> <=> \A i \in 1..Len(eds) : ~eds[i].shouldAlert
        /\ ea = <<>> <=> Alerting = {}
        /\ ea # <<>> =>
              /\ ea[1].spot = SPOTS.BELMAR
              /\ ea[1].generatedAt = en
              /\ Len(ea[1].forecasts) = Cardinality(Alerting)
              /\ \E idx \in Ascending(Len(ea[1].forecasts), Alerting) :
                    \A j \in 1..Len(ea[1].forecasts) : ea[1].forecasts[j] = efs[idx[j]]

\* three days given, of which the first and the last alert
C17_Witness ==
    /\ pc = "generated" /\ ea # <<>>
    /\ Len(efs) = 3 /\ Len(eds) = 3
    /\ Alerting = {1, 3}
    /\ ea[1].forecasts = <<efs[1], efs[3]>>

----------------------------------------------------------------------------
(* More properties of the check cycle (specification Spec) *)

C19_SingleWriter ==
    /\ writes <= 1
    /\ writes = 0 => disk = diskAtStart
    /\ writes = 1 => (pc = "done" /\ CronCycle /\ disk.exists /\ disk.content = state)
    /\ pc \in {"fetch", "finish"} => writes = 0
    /\ (pc = "done" /\ ~CronCycle) => writes = 0
    /\ (pc = "done" /\ CronCycle /\ InQuietHours /\ ~forceMode(argv)) => writes = 0

\* a --json cycle that found new alerts leaves the file an earlier cron
\* cycle wrote as it is
C19_Witness ==
    /\ pc = "done" /\ jsonOutput(argv)
    /\ newAlerts # <<>>
    /\ diskAtStart.exists /\ disk = diskAtStart /\ writes = 0

----------------------------------------------------------------------------
(* Properties of the cycles where config files exist (SpecConfig) *)

\* the alert config the config files give
FileConfig == loadConfig(localConfig, globalConfig).alertConfig

\* every forecast day of the cycle's alerts alerts under the given config
AlertsAgreeWith(config) ==
    \A i \in 1..Len(allAlerts) : \A j \in 1..Len(allAlerts[i].forecasts) :
        evaluateForecast(allAlerts[i].forecasts[j], config, now).shouldAlert

\* C20 as stated: the cycle evaluates the forecasts and the quiet hours with
\* the values the config file sets (local before global), the defaults
\* standing for the fields it omits.
C20_Original ==
    pc = "done" =>
        /\ AlertsAgreeWith(FileConfig)
        /\ (CronCycle /\ ~forceMode(argv) /\ Len(newAlerts) > 0)
              => (stdout = <<>> <=> isQuietHours(FileConfig.quietHours, now))

\* C20, what the code does: loadConfig would give the local file's fields
\* before the global file's and the defaults for the rest, but the cycle
\* never calls it: it evaluates the forecasts and the quiet hours with
\* DEFAULT_ALERT_CONFIG whatever the files hold.
C20_ConfigIgnored ==
    /\ localConfig.exists
          => /\ FileConfig.waveMax = localConfig.values.waveMax
             /\ FileConfig.waveMin = DEFAULT_ALERT_CONFIG.waveMin
             /\ FileConfig.quietHours = DEFAULT_ALERT_CONFIG.quietHours
    /\ (~localConfig.exists /\ globalConfig.exists)
          => /\ FileConfig.quietHours.enabled = globalConfig.values.enabled
             /\ FileConfig.quietHours.start = DEFAULT_ALERT_CONFIG.quietHours.start
             /\ FileConfig.waveMax = DEFAULT_ALERT_CONFIG.waveMax
    /\ pc = "done" =>
          /\ AlertsAgreeWith(DEFAULT_ALERT_CONFIG)
          /\ (CronCycle /\ ~forceMode(argv) /\ Len(newAlerts) > 0)
                => (stdout = <<>> <=> InQuietHours)

\* with waveMax set to 2 by the local file, a cron cycle outside quiet hours
\* prints an alert for a 3-4ft day
C20_Witness ==
    /\ pc = "done" /\ CronCycle /\ ~InQuietHours
    /\ localConfig = SmallWavesFile
    /\ stdout # <<>>
    /\ ~AlertsAgreeWith(FileConfig)

----------------------------------------------------------------------------
(* Properties of the state store (specification SpecStore) *)

\* the date a record's key was built from, and the UTC date 7 days before
\* the clock's
KeyDate(key) == key[Len(key)]
CutoffDate == (clock \div 24) - 7

\* the forecast days of the alert given to filterNewAlerts
GivenForecasts == allAlerts[1].forecasts
NoneBeforeCutoff ==
    \A i \in 1..Len(GivenForecasts) : GivenForecasts[i].date \div 24 >= CutoffDate

\* filterNewAlerts returned an alert, updateStateAfterCheck recorded it and
\* filterNewAlerts was called again
Refiltered == pc = "refiltered" /\ newAlerts # <<>> /\ sent = newAlerts

C12_CleanupByKeyDate ==
    pc = "cleaned" =>
        /\ DOMAIN state.alertsSent =
              {k \in DOMAIN stateBefore.alertsSent : ~(KeyDate(k) < CutoffDate)}
        /\ \A k \in DOMAIN state.alertsSent : state.alertsSent[k] = stateBefore.alertsSent[k]
        /\ state.lastCheck = stateBefore.lastCheck
        /\ \A k \in DOMAIN stateBefore.alertsSent :
              /\ KeyDate(k) = (clock \div 24) - 8 => k \notin DOMAIN state.alertsSent
              /\ KeyDate(k) >= (clock \div 24) - 7 => k \in DOMAIN state.alertsSent

\* a record 8 days old sent just now is removed, one 7 days old sent nine
\* days ago is kept
C12_Witness ==
    /\ pc = "cleaned"
    /\ \E k \in DOMAIN stateBefore.alertsSent :
          /\ KeyDate(k) = (clock \div 24) - 8
          /\ stateBefore.alertsSent[k] = StartClock
          /\ k \notin DOMAIN state.alertsSent
    /\ \E k \in DOMAIN state.alertsSent :
          /\ KeyDate(k) = (clock \div 24) - 7
          /\ state.alertsSent[k] < StartClock

\* C18: after updateStateAfterCheck(state, sentAlerts) at time now,
\* lastCheck = now; every pair of sentAlerts dated on or after the cutoff is
\* recorded, stamped now; no record dated before the cutoff is left; the
\* records are those of before and of sentAlerts, less the ones before the
\* cutoff; and the file holds the state.
C18_UpdateRecordsAndSaves ==
    pc \in {"updated", "refiltered"} =>
        /\ state.lastCheck = clock
        /\ \A k \in AlertKeys(sent) :
              KeyDate(k) >= CutoffDate =>
                  (k \in DOMAIN state.alertsSent /\ state.alertsSent[k] = clock)
        /\ \A k \in DOMAIN state.alertsSent : KeyDate(k) >= CutoffDate
        /\ DOMAIN state.alertsSent =
              {k \in DOMAIN stateBefore.alertsSent \cup AlertKeys(sent) :
                  KeyDate(k) >= CutoffDate}
        /\ \A k \in DOMAIN state.alertsSent \ AlertKeys(sent) :
              state.alertsSent[k] = stateBefore.alertsSent[k]
        /\ disk.exists /\ disk.json /\ disk.content = state

\* an update given a day before the cutoff and a current day, on a state
\* that held a record before the cutoff
C18_Witness ==
    /\ pc = "updated"
    /\ \E k \in AlertKeys(sent) : KeyDate(k) < CutoffDate
    /\ \E k \in AlertKeys(sent) : k \in DOMAIN state.alertsSent
    /\ \E k \in DOMAIN stateBefore.alertsSent : k \notin DOMAIN state.alertsSent
    /\ disk.content = state

----------------------------------------------------------------------------
(* Properties of the cycles on a defective state file (SpecCorrupt) *)

\* the file the cycle loaded was missing, not JSON, or without alertsSent
DefectiveAtStart ==
    \/ ~diskAtStart.exists
    \/ ~diskAtStart.json
    \/ "alertsSent" \notin DOMAIN diskAtStart.content

\* C13 as stated: on a missing, unreadable or corrupt state file (JSON
\* without an alertsSent mapping included) loadState yields a state with an
\* empty alertsSent mapping and the rest of the cycle raises nothing.
C13_Original ==
    /\ (pc \in {"fetch", "finish"} /\ DefectiveAtStart)
          => ("alertsSent" \in DOMAIN state /\ state.alertsSent = NoAlertsSent)
    /\ (pc # "idle" /\ DefectiveAtStart) => ~raised

\* C13, what the code does: a missing or non-JSON file loads as the empty
\* state and raises nothing; a JSON file without alertsSent loads as it is,
\* filterNewAlerts throws on every alert, and the cycle, catching it, finds
\* no new alert and never rewrites the file.
C13_DefectiveFile ==
    /\ (pc \in {"fetch", "finish"} /\ (~diskAtStart.exists \/ ~diskAtStart.json))
          => (state.alertsSent = NoAlertsSent /\ ~raised)
    /\ disk = NoAlertsSentFile
          => /\ pc # "idle" => "alertsSent" \notin DOMAIN state
             /\ newAlerts = <<>>
             /\ raised <=> allAlerts # <<>>
             /\ writes = 0

\* a cron cycle outside quiet hours on a file without alertsSent: it found an
\* alert, filterNewAlerts threw, and it printed nothing
C13_Witness ==
    /\ pc = "done" /\ CronCycle /\ ~InQuietHours
    /\ diskAtStart = NoAlertsSentFile
    /\ allAlerts # <<>> /\ raised /\ stdout = <<>>

----------------------------------------------------------------------------
(* Properties of the cycles whose process may die in saveState (SpecCrash) *)

\* C21 as stated: whenever a cycle has begun to save, the file afterwards
\* holds the complete previous state or the complete new state.
C21_Original ==
    (pc = "done" /\ writes = 1) => disk \in {diskAtStart, saveState(state)}

\* C21, what the code does: after a cycle began to save, the file holds the
\* previous content, the new state, or a text that is not JSON; and a file
\* that is not JSON loads as the default state, with no record at all.
C21_CrashLosesRecords ==
    /\ (pc = "done" /\ writes = 1)
          => disk \in {diskAtStart, saveState(state), GarbageFile}
    /\ disk = GarbageFile => loadState(disk, clock).alertsSent = NoAlertsSent

\* a cycle loaded a file with records, printed a new alert and died while
\* saving: the file is cut short and the earlier records are gone
C21_Witness ==
    /\ pc = "done" /\ writes = 1
    /\ diskAtStart.exists /\ diskAtStart.json
    /\ DOMAIN diskAtStart.content.alertsSent # {}
    /\ Printed(stdout) # {}
    /\ disk = GarbageFile
    /\ loadState(disk, clock).alertsSent = NoAlertsSent

----------------------------------------------------------------------------
(* Properties of markAlertSent called twice (SpecStore) *)

\* the key of the (spot id, forecast date) pair Mark and MarkAgain record
MarkedKey == getAlertKey(allAlerts[1].spot.id, allAlerts[1].forecasts[1].date)

\* C22 as stated: the second markAlertSent for the same pair leaves the state
\* equal to the state after the first call, the stored value included.
C22_Original ==
    pc = "remarked" => state = stateBefore

\* C22: markAlertSent is an upsert of the timestamp of the call.  After each
\* call wasAlertSent is true for the pair, the key set is the former one with
\* the pair's key, no other key and not lastCheck has changed, and the key
\* holds the time of this call; so the second call leaves the key set as it
\* was, and the state as it was exactly when the clock has not moved between
\* the two calls.
C22_UpsertLatest ==
    /\ pc \in {"marked", "remarked"}
          => /\ wasAlertSent(state, allAlerts[1].spot.id, allAlerts[1].forecasts[1].date)
             /\ DOMAIN state.alertsSent = DOMAIN stateBefore.alertsSent \cup {MarkedKey}
             /\ \A k \in DOMAIN stateBefore.alertsSent \ {MarkedKey} :
                   state.alertsSent[k] = stateBefore.alertsSent[k]
             /\ state.lastCheck = stateBefore.lastCheck
             /\ state.alertsSent[MarkedKey] = clock
    /\ pc = "remarked"
          => /\ DOMAIN state.alertsSent = DOMAIN stateBefore.alertsSent
             /\ state = stateBefore <=> stateBefore.alertsSent[MarkedKey] = clock

\* the pair marked twice, an hour apart, in a state holding another key: the
\* key set is the same and the stored timestamp is the later one
C22_Witness ==
    /\ pc = "remarked"
    /\ DOMAIN state.alertsSent = DOMAIN stateBefore.alertsSent
    /\ DOMAIN state.alertsSent # {MarkedKey}
    /\ stateBefore.alertsSent[MarkedKey] = clock - 1
    /\ state.alertsSent[MarkedKey] = clock

----------------------------------------------------------------------------
(* Properties of the check cycle: failures, --force, the records (Spec) *)

\* the spots whose fetch failed in the running cycle
FailedSpots == {stderr[i].data[1] : i \in DOMAIN stderr}

\* the pairs the file recorded when the cycle loaded it
RecordedAtStart == DOMAIN loadState(diskAtStart, now).alertsSent

\* the pairs of a set of keys that belong to a spot whose fetch failed
OfFailedSpot(keys) == {k \in keys : \E spot \in FailedSpots : k[1] = spot.id[1]}

\* C23: a fetch failure for one spot does not abort the cycle.  The loop
\* reaches its end over all the spots; a failed spot has no alert in
\* allAlerts; the new alerts are the alerts of the other spots, less the pairs
\* the loaded state records; and a cron cycle that is not suppressed prints and
\* records exactly those, none of them for a failed spot.
C23_FetchFailureIsolated ==
    /\ pc \in {"finish", "done"} => spotIdx = Len(spotsToCheck) + 1
    /\ pc \in {"fetch", "finish", "done"}
          => /\ \A i \in DOMAIN allAlerts : allAlerts[i].spot \notin FailedSpots
             /\ AlertKeys(newAlerts) = AlertKeys(allAlerts) \ RecordedAtStart
    /\ (pc = "done" /\ CronCycle /\ ~Suppressed)
          => /\ Printed(stdout) = AlertKeys(newAlerts)
             /\ AlertKeys(newAlerts) \subseteq Recorded
             /\ OfFailedSpot(Printed(stdout)) = {}
             /\ OfFailedSpot(Recorded \ RecordedAtStart) = {}

\* a cron cycle whose fetch for Belmar failed: it printed and recorded the new
\* alert of Long Branch
C23_Witness ==
    /\ pc = "done" /\ CronCycle
    /\ FailedSpots = {SPOTS.BELMAR}
    /\ Len(newAlerts) = 1 /\ newAlerts[1].spot = SPOTS.LONG_BRANCH
    /\ stdout = <<Out("summary", newAlerts)>>
    /\ AlertKeys(newAlerts) \subseteq Recorded
    /\ AlertKeys(newAlerts) \cap RecordedAtStart = {}

\* a finished cron cycle printed the summary of its new alerts, if it has any,
\* and recorded each of them as sent at the time of the cycle; its new alerts
\* are its alerts less the pairs the loaded state records
EmitsAndRecordsNew ==
    /\ stdout = IF Len(newAlerts) > 0 THEN <<Out("summary", newAlerts)>> ELSE <<>>
    /\ AlertKeys(newAlerts) = AlertKeys(allAlerts) \ RecordedAtStart
    /\ Len(newAlerts) > 0
          => /\ writes = 1
             /\ \A k \in AlertKeys(newAlerts) :
                   k \in Recorded /\ disk.content.alertsSent[k] = clock
             /\ RecordedAtStart \cap Recorded
                   = {k \in RecordedAtStart : ~(KeyDate(k) < CutoffDate)}
    /\ Len(newAlerts) = 0 => (writes = 0 /\ disk = diskAtStart)

\* C24: a --cron --force cycle inside quiet hours prints every new alert and
\* records it as sent, as a cron cycle outside quiet hours does, and the pairs
\* the stored state records are still left out of the new alerts.
C24_ForceBypassesQuiet ==
    (pc = "done" /\ CronCycle /\ (~InQuietHours \/ forceMode(argv)))
        => EmitsAndRecordsNew

\* a --force cycle inside quiet hours found two alerting days, one recorded
\* by an earlier cycle: it printed and recorded the other one only
C24_Witness ==
    /\ pc = "done" /\ CronCycle /\ forceMode(argv) /\ InQuietHours
    /\ AlertKeys(allAlerts) \cap RecordedAtStart # {}
    /\ Len(newAlerts) > 0
    /\ Printed(stdout) = AlertKeys(allAlerts) \ RecordedAtStart
    /\ Printed(stdout) \subseteq Recorded

----------------------------------------------------------------------------
(* Properties of the states loadState returns in one process (SpecFresh) *)

\* C25 as stated: when loadState fell back to the default twice, nothing
\* recorded in the first state shows in the second, whose alertsSent is empty.
C25_Original ==
    (Len(loaded) = 2 /\ FellBack(loaded[1]) /\ FellBack(loaded[2]))
        => Deref(loaded[2]).alertsSent = NoAlertsSent

\* C25, what the code does: the states loadState defaulted share the one
\* alertsSent object of DEFAULT_STATE, so the second holds exactly the pairs
\* markAlertSent recorded in the first; the states it parsed from the file
\* hold an object of their own each, and the second holds what the file holds.
C25_DefaultShared ==
    Len(loaded) = 2
        => /\ (FellBack(loaded[1]) /\ FellBack(loaded[2]))
                 => /\ loaded[1].alertsSent = loaded[2].alertsSent
                    /\ Deref(loaded[2]).alertsSent = Deref(loaded[1]).alertsSent
           /\ ~FellBack(loaded[2])
                 => /\ loaded[1].alertsSent # loaded[2].alertsSent
                    /\ Deref(loaded[2]).alertsSent = disk.content.alertsSent

\* loadState fell back twice and Belmar's StartDay was recorded in the first
\* state: wasAlertSent is true for it in the second
C25_Witness ==
    /\ Len(loaded) = 2 /\ FellBack(loaded[1]) /\ FellBack(loaded[2])
    /\ ~disk.exists
    /\ wasAlertSent(Deref(loaded[1]), SPOTS.BELMAR.id, StoreDate(StartDay))
    /\ wasAlertSent(Deref(loaded[2]), SPOTS.BELMAR.id, StoreDate(StartDay))

----------------------------------------------------------------------------
(* Properties of overlapping cron cycles (SpecOverlap) *)

\* C26 as stated: a pair is printed by at most one of the cycles, and after
\* the cycles have saved, the file records every pair a cycle printed (and
\* the retention time has not dropped).
C26_Original ==
    /\ \A k \in DOMAIN emitCount : emitCount[k] <= 1
    /\ pc \in {"idle", "done"}
          => \A k \in DOMAIN emitCount : ~(KeyDate(k) < CutoffDate) => k \in Recorded

\* C26, what the code does: nothing keeps the overlapping cycles apart.  Each
\* of them prints a pair at most once, so a pair is printed up to twice for
\* each run of the schedule; and the cycle that saves last writes the state it
\* loaded with its own new alerts, whatever the other one saved in between.
C26_LastWriterWins ==
    /\ \A k \in DOMAIN emitCount : emitCount[k] <= 2 * cycles
    /\ (pc = "done" /\ writes = 1)
          => /\ disk.content = state
             /\ Recorded = {k \in RecordedAtStart \cup AlertKeys(newAlerts) :
                               ~(KeyDate(k) < CutoffDate)}

\* the first run of the schedule, two cycles overlapping on the empty store:
\* both printed a pair of Belmar, and a pair of Long Branch that only the
\* other cycle printed and saved is not in the file this cycle saved after it
C26_Witness ==
    /\ cycles = 1 /\ pc = "done" /\ writes = 1
    /\ \E k \in DOMAIN emitCount : emitCount[k] = 2
    /\ \E k \in DOMAIN emitCount : k \notin AlertKeys(newAlerts) /\ k \notin Recorded

----------------------------------------------------------------------------
(* Properties of the records over the check cycles (Spec) *)

\* C27: from the empty store on, whatever the modes of the cycles, the state
\* file records a (spot id, date) pair only if a cron cycle has printed it:
\* the file, and the state a cron cycle is about to save, hold no other key.
C27_RecordedOnlyIfEmitted ==
    /\ \A k \in Recorded : k \in DOMAIN emitCount /\ emitCount[k] >= 1
    /\ (pc = "done" /\ writes = 1)
          => DOMAIN state.alertsSent \subseteq DOMAIN emitCount
    /\ ~CronCycle => disk = diskAtStart

\* after a cron cycle recorded a pair, a --json cycle found another new alert:
\* the file records the first pair only, the second was never printed
C27_Witness ==
    /\ pc = "done" /\ jsonOutput(argv) /\ ~CronCycle
    /\ Recorded # {}
    /\ Len(newAlerts) > 0
    /\ AlertKeys(newAlerts) \cap Recorded = {}
    /\ AlertKeys(newAlerts) \cap DOMAIN emitCount = {}

\* C28: from the empty store on, every key of the state file has a date from
\* 7 days before the UTC date of the file's lastCheck to forecastDays days
\* after it, so the file holds at most (forecastDays + 8) records for each
\* spot.
C28_StoreBounded ==
    disk.exists
        => /\ \A k \in Recorded :
                 /\ isoDate(disk.content.lastCheck - RetentionDays * HoursPerDay)
                       <= KeyDate(k)
                 /\ KeyDate(k) <= isoDate(disk.content.lastCheck)
                                     + DEFAULT_ALERT_CONFIG.forecastDays
           /\ Cardinality(Recorded)
                 <= Len(spotsToCheck) * (DEFAULT_ALERT_CONFIG.forecastDays + 8)

\* a cron cycle, more than 7 days after the one that wrote the file, recorded
\* a new alert: the records of the earlier cycle are gone from the file
C28_Witness ==
    /\ pc = "done" /\ writes = 1
    /\ RecordedAtStart # {}
    /\ RecordedAtStart \cap Recorded = {}
    /\ Recorded = AlertKeys(newAlerts)
    /\ \A k \in RecordedAtStart : KeyDate(k) < isoDate(disk.content.lastCheck) - RetentionDays

----------------------------------------------------------------------------
(* Properties of cleanupOldAlerts on spot ids with a ':' (SpecColon) *)

\* the records of the spot ids that hold a ':'
OfColonId(keys) == {k \in keys : Len(k) > 2}

\* C29 as stated: for every spot id, one holding a ':' included, a record is
\* removed if and only if the date getAlertKey appended is before the cutoff.
C29_Original ==
    pc = "cleaned" =>
        DOMAIN state.alertsSent =
            {k \in DOMAIN stateBefore.alertsSent : ~(KeyDate(k) < CutoffDate)}

\* C29, what the code does: the records of a spot id without ':' are removed
\* by their date; a record of a spot id with a ':' is removed or kept by the
\* second part of the id compared, as a string, with the cutoff date, whatever
\* its date: always removed where that part sorts before the dates ("16th-ave"),
\* never removed where it sorts after ("belmar").
C29_SecondPartDecides ==
    pc = "cleaned" =>
        /\ DOMAIN state.alertsSent \ OfColonId(DOMAIN stateBefore.alertsSent) =
              {k \in DOMAIN stateBefore.alertsSent \ OfColonId(DOMAIN stateBefore.alertsSent) :
                  ~(KeyDate(k) < CutoffDate)}
        /\ OfColonId(DOMAIN state.alertsSent) =
              {k \in OfColonId(DOMAIN stateBefore.alertsSent) : k[2] = "belmar"}

\* a record of "5842041f:16th-ave" for tomorrow was removed and one of
\* "nj:belmar" 8 days old was kept, while Belmar's 8 days old one was removed
C29_Witness ==
    /\ pc = "cleaned"
    /\ \E k \in DOMAIN stateBefore.alertsSent :
          /\ Len(k) > 2 /\ k[2] = "16th-ave" /\ KeyDate(k) > clock \div 24
          /\ k \notin DOMAIN state.alertsSent
    /\ \E k \in DOMAIN state.alertsSent :
          Len(k) > 2 /\ k[2] = "belmar" /\ KeyDate(k) < CutoffDate
    /\ \E k \in DOMAIN stateBefore.alertsSent :
          Len(k) = 2 /\ KeyDate(k) < CutoffDate /\ k \notin DOMAIN state.alertsSent

----------------------------------------------------------------------------
(* Properties of the look-ahead window against getDaysOut (SpecWindow) *)

\* C30 as stated: a day with 0 <= getDaysOut <= forecastDays gets a decision,
\* a day with getDaysOut > forecastDays gets none, at every time of day.
C30_Original ==
    pc = "evaluated" =>
        LET daysOut == getDaysOut(efs[1].date, en)
        IN /\ (0 <= daysOut /\ daysOut <= ec.forecastDays) => Len(eds) = 1
           /\ daysOut > ec.forecastDays => eds = <<>>

\* C30: evaluateForecasts keeps a day by its timestamp, not later than now
\* plus forecastDays times 24 hours.  So a day with getDaysOut < forecastDays
\* gets a decision and a day with getDaysOut > forecastDays gets none; a day
\* with getDaysOut = forecastDays gets one exactly when its timestamp's time
\* of day is not later than that of now.
C30_WindowByTimestamp ==
    pc = "evaluated" =>
        LET daysOut == getDaysOut(efs[1].date, en)
        IN /\ Len(eds) = 1 <=> efs[1].date <= en + ec.forecastDays * HoursPerDay
           /\ Len(eds) = 0 <=> ~(efs[1].date <= en + ec.forecastDays * HoursPerDay)
           /\ daysOut < ec.forecastDays => Len(eds) = 1
           /\ daysOut > ec.forecastDays => eds = <<>>
           /\ daysOut = ec.forecastDays
                 => (Len(eds) = 1 <=> getHours(efs[1].date) <= getHours(en))

\* forecastDays is 2 and now is 09:00: the day 2 days out stamped at local
\* midnight got a decision
C30_Witness ==
    /\ pc = "evaluated"
    /\ ec.forecastDays = 2 /\ getHours(en) = 9
    /\ getDaysOut(efs[1].date, en) = 2 /\ getHours(efs[1].date) = 0
    /\ Len(eds) = 1 /\ eds[1].forecast = efs[1]

====
